---- MODULE Spec2Model ----
(***************************************************************************)
(* Model of the backend resolution layer (backends/__init__.py) and of the *)
(* live-participant bridge (backends/slurk_api.py).                        *)
(*                                                                         *)
(* Three specifications share the variables:                               *)
(*   SpecModelSpec  ModelSpec.update / ModelSpec.matches on arbitrary      *)
(*                  pairs of specs                                         *)
(*   SpecResolver   init_model_registry, get_backend_for and discovery     *)
(*   SpecBridge     ClemBot: event-callback thread against waiter thread   *)
(***************************************************************************)
EXTENDS Naturals, Sequences, FiniteSets, TLC

VARIABLES
    \* -- ModelSpec pair (SpecModelSpec)
    a,                  \* the spec update/matches is called on (self)
    b,                  \* the argument (other)
    a0,                 \* self as it was before the last operation
    b0,                 \* other as it was before the last operation
    ret,                \* what the last operation returned
    op,                 \* the last operation
    \* -- resolver (SpecResolver)
    model_registry,     \* _model_registry: list of ModelSpec
    backend_registry,   \* _backend_registry: backend name -> constructor
    listing,            \* the records of the registry file
    raw,                \* the mapping last passed to ModelSpec.from_dict
    registry0,          \* _model_registry before the last operation
    table0,             \* _backend_registry before the last operation
    req0,               \* the caller's spec as passed to the last get_backend_for
    req,                \* the caller's spec after that call (mutated in place)
    outcome,            \* what the last call returned or raised
    discovered,         \* per backend name: successful runs of _register_backend
    registry_loaded,    \* whether an init_model_registry call has returned normally
    \* -- bridge (SpecBridge)
    sync_event,         \* ClemBot.sync_event: the flag of the event object
    user_messages,      \* ClemBot.user_messages
    wpc,                \* waiter thread: the statement it is about to run
    epc,                \* event thread: the statement the running callback is at
    ecur,               \* event thread: the event last delivered
    arrived,            \* number of inbound events delivered so far
    accepted,           \* text messages appended to the buffer: [id, wait]
    waitno,             \* wait_for_user_response calls begun so far
    turn,               \* generate_response calls begun so far
    tries,              \* attempts left in the running generate_response
    messages,           \* the history passed to the running generate_response
    user_response,      \* wait_for_user_response's local user_response (0: unset)
    reply,              \* what the last finished call returned or raised
    emitted,            \* outbound text events of the running generate_response
    woken,              \* how the last wait ended: "signal" or "timeout"
    waited,             \* time the running sync_event.wait has been blocked
    admitted,           \* inbound events so far of the room, not from the bot
    steps,              \* what prepare_and_wait_for_participant has done so far
    \* -- remote-API backend (SpecRemote)
    rcls,               \* the class of the backend generate_response is called on
    rpc,                \* "idle", or "attempt" while the retry loop is running
    rtries,             \* the retry loop's _tries: attempts left
    rmessages,          \* the history passed to the running generate_response
    rlog,               \* the attempts of the last call, each [exc, text, requests]
                        \* with what the service did or would have done (remote)
    rreply,             \* what the last finished call returned or raised
    rcalls,             \* generate_response calls begun so far
    \* -- concurrent resolutions (SpecRace)
    tname,              \* per thread: the backend name of the spec it resolves
    tpc,                \* per thread: the statement of _load_backend_for it is at
    tfound,             \* per thread: _register_backend's local backend_cls
    tresult             \* per thread: what its _load_backend_for returned or raised

msVars == <<a, b, a0, b0, ret, op>>
resVars == <<model_registry, backend_registry, listing, raw, registry0, table0, req0, req, outcome,
             discovered, registry_loaded>>
brVars == <<sync_event, user_messages, wpc, epc, ecur, arrived, accepted, waitno, turn,
            tries, messages, user_response, reply, emitted, woken, waited, admitted,
            steps>>
remVars == <<rcls, rpc, rtries, rmessages, rlog, rreply, rcalls>>
thrVars == <<tname, tpc, tfound, tresult>>
vars == <<msVars, resVars, brVars, remVars, thrVars>>

None == "None"

(***************************************************************************)
(* Value universes                                                         *)
(***************************************************************************)
Keys == {"k1", "k2"}
Vals == {"v1", "v2"}
\* A Python dict with string keys: a function on a subset of Keys.
Dicts == UNION {[S -> Vals] : S \in SUBSET Keys}
EmptyDict == [k \in {} |-> "v1"]

\* Object identities of the option dicts. An option mapping is [id, d]: two
\* holders with the same id hold the same dict object.
ObjId(kind) == [kind |-> kind, n |-> 0]
FreshId == ObjId("copy")

ModelNames == {"model1", "model2"}
PROGRAMMATIC_SPECS == {"mock", "dry_run", "programmatic", "custom", "_slurk_response"}
HUMAN_SPECS == {"human", "terminal"}

PairBackends == {"anthropic", "mistral"}
PairIds == {"id1", "id2"}
Temperatures == {"0.0", "0.7"}

(***************************************************************************)
(* ModelSpec                                                               *)
(***************************************************************************)
ModelSpec(model_name, backend, model_id, temperature, opts) ==
    [model_name |-> model_name, backend |-> backend, model_id |-> model_id,
     temperature |-> temperature, opts |-> opts]

has_temperature(s) == s.temperature /= None

has_backend(s) == s.backend /= None

has_model_id(s) == s.model_id /= None

\* A copy that is no copy: the same object is handed back.
dict_alias(o) == o

\* dict.copy(): a new object with the same items.
dict_copy(o) == [id |-> FreshId, d |-> o.d]

\* dict.update(src) on the object dst: src's items overwrite dst's.
dict_update(dst, src) ==
    [id |-> dst.id,
     d |-> [k \in (DOMAIN dst.d) \cup (DOMAIN src.d) |->
               IF k \in DOMAIN src.d THEN src.d[k] ELSE dst.d[k]]]

\* What a holder of the dict object o sees after the object w was written.
Seen(o, w) == IF o.id = w.id THEN w ELSE o

\* update with the overlay the other way round: other's option keys win.
update_theirs(self, other) ==
    LET s1 == IF ~has_backend(self) THEN [self EXCEPT !.backend = other.backend] ELSE self
        s2 == IF ~has_model_id(s1) THEN [s1 EXCEPT !.model_id = other.model_id] ELSE s1
        s3 == IF ~has_temperature(s2)
              THEN [s2 EXCEPT !.temperature = other.temperature] ELSE s2
        own_opts == dict_copy(self.opts)
        merged == dict_update(own_opts, other.opts)
    IN  <<[s3 EXCEPT !.opts = merged],
          [other EXCEPT !.opts = Seen(other.opts, merged)]>>

\* update whose test for the temperature looks at self's backend, before the
\* backend is filled in.
update_temperature_by_backend(self, other) ==
    LET s1 == IF has_backend(self)
              THEN [self EXCEPT !.temperature = other.temperature] ELSE self
        s2 == IF ~has_backend(s1) THEN [s1 EXCEPT !.backend = other.backend] ELSE s1
        s3 == IF ~has_model_id(s2) THEN [s2 EXCEPT !.model_id = other.model_id] ELSE s2
        other_opts == dict_copy(other.opts)
        merged == dict_update(other_opts, self.opts)
    IN  <<[s3 EXCEPT !.opts = merged],
          [other EXCEPT !.opts = Seen(other.opts, merged)]>>

\* ModelSpec.update: the pair <<self, other>> after self.update(other).
update(self, other) ==
    LET s1 == IF ~has_backend(self) THEN [self EXCEPT !.backend = other.backend] ELSE self
        s2 == IF ~has_model_id(s1) THEN [s1 EXCEPT !.model_id = other.model_id] ELSE s1
        s3 == IF ~has_temperature(s2)
              THEN [s2 EXCEPT !.temperature = other.temperature] ELSE s2
        other_opts == dict_copy(other.opts)
        merged == dict_update(other_opts, self.opts)
    IN  <<[s3 EXCEPT !.opts = merged],
          [other EXCEPT !.opts = Seen(other.opts, merged)]>>

\* matches that compares the backends also when self has none.
matches_strict(self, other) ==
    IF self.model_name /= other.model_name THEN FALSE
    ELSE IF self.backend /= other.backend THEN FALSE
    ELSE TRUE

\* matches that does not look at the names.
matches_any_name(self, other) ==
    IF has_backend(self) /\ self.backend /= other.backend THEN FALSE
    ELSE TRUE

\* matches that never compares the backends.
matches_name_only(self, other) ==
    IF self.model_name /= other.model_name THEN FALSE
    ELSE TRUE

\* ModelSpec.matches
matches(self, other) ==
    IF self.model_name /= other.model_name THEN FALSE
    ELSE IF has_backend(self) /\ self.backend /= other.backend THEN FALSE
    ELSE TRUE

\* is_programmatic that does not know the name mock.
is_programmatic_without_mock(s) == s.model_name \in PROGRAMMATIC_SPECS \ {"mock"}

is_programmatic(s) == s.model_name \in PROGRAMMATIC_SPECS

is_human(s) == s.model_name \in HUMAN_SPECS

(***************************************************************************)
(* SpecModelSpec: update and matches applied to every pair of specs        *)
(***************************************************************************)
PairOpts(id) == {[id |-> id, d |-> d] : d \in Dicts}

PairSpecs(id) ==
    {ModelSpec(n, be, mid, t, o) :
        n \in ModelNames, be \in PairBackends \cup {None}, mid \in PairIds \cup {None},
        t \in Temperatures \cup {None}, o \in PairOpts(id)}

\* The value a later caller writes into self.opts.
NewVal == "v9"

PairInit ==
    /\ a \in PairSpecs(ObjId("a"))
    /\ b \in PairSpecs(ObjId("b"))
    /\ a0 = a
    /\ b0 = b
    /\ ret = None
    /\ op = "init"

PairIdle ==
    /\ a = ModelSpec("model1", None, None, None, [id |-> ObjId("a"), d |-> EmptyDict])
    /\ b = a
    /\ a0 = a
    /\ b0 = a
    /\ ret = None
    /\ op = "idle"

\* a.update(b); may be repeated once.
Update ==
    /\ op \in {"init", "update"}
    /\ a0' = a
    /\ b0' = b
    /\ a' = update(a, b)[1]
    /\ b' = update(a, b)[2]
    /\ ret' = None
    /\ op' = IF op = "init" THEN "update" ELSE "update_again"
    /\ UNCHANGED <<resVars, brVars, remVars, thrVars>>

\* a.matches(b)
Matches ==
    /\ op = "init"
    /\ ret' = matches(a, b)
    /\ op' = "matches"
    /\ UNCHANGED <<a, b, a0, b0, resVars, brVars, remVars, thrVars>>

\* After the merge the caller writes a.opts[k] = NewVal; every holder of that
\* dict object sees the write.
SetOpt(k) ==
    /\ op = "update"
    /\ LET w == [id |-> a.opts.id, d |-> [j \in (DOMAIN a.opts.d) \cup {k} |->
                                             IF j = k THEN NewVal ELSE a.opts.d[j]]]
       IN  /\ a' = [a EXCEPT !.opts = w]
           /\ b' = [b EXCEPT !.opts = Seen(b.opts, w)]
    /\ a0' = a
    /\ b0' = b
    /\ ret' = None
    /\ op' = "set_opt"
    /\ UNCHANGED <<resVars, brVars, remVars, thrVars>>

PairNext ==
    \/ Update
    \/ Matches
    \/ \E k \in Keys : SetOpt(k)

(***************************************************************************)
(* Resolver: model registry, backend table, discovery                      *)
(***************************************************************************)
\* Backend names. The first three have a unit <name>_api.py in backends/ that
\* defines one Backend class; the others stand for a name without a unit, a
\* unit that defines no Backend class and a unit that defines two.
BackendNames == {"anthropic", "mistral", "slurk", "nounit", "empty", "ambiguous"}

\* os.path.isfile(backend_path)
UnitExists(backend_name) == backend_name /= "nounit"

\* inspect.getmembers(module, predicate=is_backend): the Backend classes of
\* the unit.
BackendClasses(backend_name) ==
    CASE backend_name = "anthropic" -> {"Anthropic"}
      [] backend_name = "mistral" -> {"Mistral"}
      [] backend_name = "slurk" -> {"Slurk"}
      [] backend_name = "ambiguous" -> {"First", "Second"}
      [] OTHER -> {}

\* ModelSpec.from_dict on a raw mapping; the mapping object itself, stripped
\* of the recognized keys, becomes opts.
RecognizedKeys == {"model_name", "backend", "model_id", "temperature"}

pop(spec, key) == IF key \in DOMAIN spec THEN spec[key] ELSE None

\* ModelSpec.from_name: a spec of that name with a new, empty opts dict.
from_name(model_name) ==
    IF model_name = None THEN [exc |-> "ValueError", spec |-> None]
    ELSE [exc |-> None,
          spec |-> ModelSpec(model_name, None, None, None,
                             [id |-> FreshId, d |-> EmptyDict])]

\* from_dict that keeps the whole mapping as opts.
from_dict_keep_all(spec, id) ==
    IF "model_name" \notin DOMAIN spec
    THEN [exc |-> "ValueError", spec |-> None]
    ELSE LET named == from_name(spec["model_name"])
         IN  IF named.exc /= None THEN named
             ELSE [exc |-> None,
                   spec |-> [named.spec EXCEPT
                                !.backend = pop(spec, "backend"),
                                !.model_id = pop(spec, "model_id"),
                                !.temperature = pop(spec, "temperature"),
                                !.opts = [id |-> id, d |-> spec]]]

from_dict(spec, id) ==
    IF "model_name" \notin DOMAIN spec
    THEN [exc |-> "ValueError", spec |-> None]
    ELSE LET named == from_name(spec["model_name"])
         IN  IF named.exc /= None THEN named
             ELSE [exc |-> None,
                   spec |-> [named.spec EXCEPT
                                !.backend = pop(spec, "backend"),
                                !.model_id = pop(spec, "model_id"),
                                !.temperature = pop(spec, "temperature"),
                                !.opts = [id |-> id,
                                          d |-> [k \in (DOMAIN spec) \ RecognizedKeys |->
                                                    spec[k]]]]]

RegId(i) == [kind |-> "reg", n |-> i]

\* init_model_registry without the test for a backend.
RECURSIVE load_entries_unchecked(_, _)
load_entries_unchecked(registry, model_listing) ==
    IF model_listing = <<>> THEN [registry |-> registry, exc |-> None]
    ELSE LET made == from_dict(Head(model_listing), RegId(Len(registry) + 1))
         IN  IF made.exc /= None THEN [registry |-> registry, exc |-> made.exc]
             ELSE load_entries_unchecked(Append(registry, made.spec), Tail(model_listing))

\* init_model_registry: the registry and the exception (or None) after the
\* listing's entries are loaded, in order, onto registry.
RECURSIVE load_entries(_, _)
load_entries(registry, model_listing) ==
    IF model_listing = <<>> THEN [registry |-> registry, exc |-> None]
    ELSE LET made == from_dict(Head(model_listing), RegId(Len(registry) + 1))
         IN  IF made.exc /= None THEN [registry |-> registry, exc |-> made.exc]
             ELSE IF ~has_backend(made.spec)
                  THEN [registry |-> registry, exc |-> "ValueError"]
                  ELSE load_entries(Append(registry, made.spec), Tail(model_listing))

\* _register_backend without the ambiguity check: takes the first class found.
register_backend_first(table, backend_name) ==
    IF ~UnitExists(backend_name)
    THEN [table |-> table, cls |-> None, exc |-> "FileNotFoundError"]
    ELSE LET backend_subclasses == BackendClasses(backend_name)
         IN  IF Cardinality(backend_subclasses) = 0
             THEN [table |-> table, cls |-> None, exc |-> "LookupError: no Backend"]
             ELSE LET backend_cls == CHOOSE c \in backend_subclasses : TRUE
                  IN  [table |-> (backend_name :> backend_cls) @@ table,
                       cls |-> backend_cls, exc |-> None]

\* _register_backend: the table after the call, the class found and the
\* exception raised (or None).
register_backend(table, backend_name) ==
    IF ~UnitExists(backend_name)
    THEN [table |-> table, cls |-> None, exc |-> "FileNotFoundError"]
    ELSE LET backend_subclasses == BackendClasses(backend_name)
         IN  IF Cardinality(backend_subclasses) = 0
             THEN [table |-> table, cls |-> None, exc |-> "LookupError: no Backend"]
             ELSE IF Cardinality(backend_subclasses) > 1
                  THEN [table |-> table, cls |-> None,
                        exc |-> "LookupError: more than one Backend"]
                  ELSE LET backend_cls == CHOOSE c \in backend_subclasses : TRUE
                       IN  [table |-> (backend_name :> backend_cls) @@ table,
                            cls |-> backend_cls, exc |-> None]

\* Backend.__init__: the defaults filled into the spec.
Backend_init(model_spec) ==
    LET s1 == IF ~has_temperature(model_spec)
              THEN [model_spec EXCEPT !.temperature = "0.0"] ELSE model_spec
    IN  IF ~has_model_id(s1) THEN [s1 EXCEPT !.model_id = s1.model_name] ELSE s1

\* backend_cls(model_spec): the spec after the call and the exception (or
\* None). Slurk.__init__ takes no model spec; the remote-API constructors run
\* Backend.__init__ and then load their credentials.
\* load_credentials asserts the backend's api_key in key.json.
construct(backend_cls, model_spec, has_creds) ==
    IF backend_cls = "Slurk" THEN [spec |-> model_spec, exc |-> "TypeError"]
    ELSE IF ~has_creds THEN [spec |-> Backend_init(model_spec), exc |-> "AssertionError"]
    ELSE [spec |-> Backend_init(model_spec), exc |-> None]

\* _load_backend_for without the membership test: discovers on every call.
load_backend_for_always(table, model_spec, has_creds) ==
    LET backend_name == model_spec.backend
        reg == register_backend(table, backend_name)
        ran == backend_name
    IN  IF reg.exc /= None
        THEN [table |-> reg.table, spec |-> model_spec, cls |-> None, exc |-> reg.exc,
              discovery |-> ran]
        ELSE LET backend_cls == reg.table[backend_name]
                 made == construct(backend_cls, model_spec, has_creds)
             IN  [table |-> reg.table, spec |-> made.spec,
                  cls |-> IF made.exc = None THEN backend_cls ELSE None,
                  exc |-> made.exc, discovery |-> ran]

\* _load_backend_for
load_backend_for(table, model_spec, has_creds) ==
    LET backend_name == model_spec.backend
        reg == IF backend_name \notin DOMAIN table
               THEN register_backend(table, backend_name)
               ELSE [table |-> table, cls |-> table[backend_name], exc |-> None]
        ran == IF backend_name \notin DOMAIN table THEN backend_name ELSE None
    IN  IF reg.exc /= None
        THEN [table |-> reg.table, spec |-> model_spec, cls |-> None, exc |-> reg.exc,
              discovery |-> ran]
        ELSE LET backend_cls == reg.table[backend_name]
                 made == construct(backend_cls, model_spec, has_creds)
             IN  [table |-> reg.table, spec |-> made.spec,
                  cls |-> IF made.exc = None THEN backend_cls ELSE None,
                  exc |-> made.exc, discovery |-> ran]

\* A scan that stops at the first entry that matches.
scan_first_match(model_spec, registry, i) ==
    LET hits == {j \in i..Len(registry) : matches(model_spec, registry[j])}
    IN  IF hits = {} THEN [spec |-> model_spec, registry |-> registry]
        ELSE LET j == CHOOSE h \in hits : \A g \in hits : h <= g
                 u == update(model_spec, registry[j])
             IN  [spec |-> u[1], registry |-> [registry EXCEPT ![j] = u[2]]]

\* The registry scan of get_backend_for: the caller's spec and the registry
\* after entries i.. were visited.
RECURSIVE scan(_, _, _)
scan(model_spec, registry, i) ==
    IF i > Len(registry) THEN [spec |-> model_spec, registry |-> registry]
    ELSE IF matches(model_spec, registry[i])
         THEN LET u == update(model_spec, registry[i])
              IN  scan(u[1], [registry EXCEPT ![i] = u[2]], i + 1)
         ELSE scan(model_spec, registry, i + 1)

\* get_backend_for
get_backend_for(model_spec, registry, table, has_creds) ==
    IF is_human(model_spec)
    THEN [spec |-> Backend_init(model_spec), registry |-> registry, table |-> table,
          cls |-> "HumanBackend", exc |-> None, discovery |-> None]
    ELSE IF is_programmatic(model_spec)
    THEN [spec |-> Backend_init(model_spec), registry |-> registry, table |-> table,
          cls |-> "ProgrammaticBackend", exc |-> None, discovery |-> None]
    ELSE LET scanned == scan(model_spec, registry, 1)
         IN  IF ~has_backend(scanned.spec)
             THEN [spec |-> scanned.spec, registry |-> scanned.registry, table |-> table,
                   cls |-> None, exc |-> "ValueError", discovery |-> None]
             ELSE LET loaded == load_backend_for(table, scanned.spec, has_creds)
                  IN  [spec |-> loaded.spec, registry |-> scanned.registry,
                       table |-> loaded.table, cls |-> loaded.cls, exc |-> loaded.exc,
                       discovery |-> loaded.discovery]

(***************************************************************************)
(* SpecResolver: sequences of init_model_registry and get_backend_for      *)
(***************************************************************************)
MaxListing == 2
MaxRegistry == 4

\* The records a registry file may hold. Six are well formed: a minimal one,
\* one of another backend for the same name, two of the same backend that set
\* further fields, one of the live bridge and one under a sentinel name. One
\* lacks backend and one lacks model_name.
RawEntries ==
    {("model_name" :> "model1") @@ ("backend" :> "anthropic"),
     ("model_name" :> "model1") @@ ("backend" :> "mistral") @@ ("model_id" :> "rid"),
     ("model_name" :> "model1") @@ ("backend" :> "anthropic") @@ ("temperature" :> "0.7")
        @@ ("k1" :> "v2"),
     ("model_name" :> "model1") @@ ("backend" :> "anthropic") @@ ("model_id" :> "rid")
        @@ ("temperature" :> "0.2") @@ ("k1" :> "v1") @@ ("k2" :> "v2"),
     ("model_name" :> "model1") @@ ("backend" :> "slurk"),
     ("model_name" :> "mock") @@ ("backend" :> "anthropic") @@ ("model_id" :> "rid"),
     "model_name" :> "model1",
     "backend" :> "anthropic"}

Listings == UNION {[1..n -> RawEntries] : n \in 0..MaxListing}

CallerId == ObjId("req")

\* What a caller sets besides name and backend: nothing, or a model_id, a
\* temperature of 0 and an option.
CallerSpec(n, be, full) ==
    IF full THEN ModelSpec(n, be, "id1", "0.0", [id |-> CallerId, d |-> "k1" :> "v1"])
    ELSE ModelSpec(n, be, None, None, [id |-> CallerId, d |-> EmptyDict])

\* The specs a caller passes: a registry-backed name with any backend or none,
\* or a sentinel name.
CallerSpecs ==
    {CallerSpec(n, be, full) :
        n \in ModelNames, be \in BackendNames \cup {None}, full \in BOOLEAN}
    \cup
    {CallerSpec(n, be, full) :
        n \in {"mock", "human"}, be \in {None, "anthropic"}, full \in BOOLEAN}

\* The raw mappings from_dict is applied to: every selection of the four
\* recognized keys and two free keys, with a name or null under model_name
\* and two values for one of the free keys.
FullMappings ==
    {("model_name" :> n) @@ ("backend" :> "anthropic") @@ ("model_id" :> "rid")
        @@ ("temperature" :> "0.7") @@ ("k1" :> v) @@ ("k2" :> "v1") :
        n \in {"model1", None}, v \in Vals}

RawMappings ==
    {[k \in S |-> full[k]] : full \in FullMappings, S \in SUBSET (RecognizedKeys \cup Keys)}

NoRaw == [k \in {} |-> None]

NoSpec == ModelSpec(None, None, None, None, [id |-> CallerId, d |-> EmptyDict])
NoOutcome == [op |-> "none", cls |-> None, exc |-> None, discovery |-> None]
EmptyTable == [n \in {} |-> None]

ResIdle ==
    /\ listing = <<>>
    /\ raw = NoRaw
    /\ model_registry = <<>>
    /\ registry0 = <<>>
    /\ backend_registry = EmptyTable
    /\ table0 = EmptyTable
    /\ req0 = NoSpec
    /\ req = NoSpec
    /\ outcome = NoOutcome
    /\ discovered = [n \in BackendNames |-> 0]
    /\ registry_loaded = FALSE

\* The state after the module is imported: both registries empty.
ResInit ==
    /\ listing \in Listings
    /\ raw = NoRaw
    /\ model_registry = <<>>
    /\ registry0 = <<>>
    /\ backend_registry = EmptyTable
    /\ table0 = EmptyTable
    /\ req0 = NoSpec
    /\ req = NoSpec
    /\ outcome = NoOutcome
    /\ discovered = [n \in BackendNames |-> 0]
    /\ registry_loaded = FALSE

\* init_model_registry(path of the listing)
InitModelRegistry ==
    /\ Len(model_registry) + Len(listing) <= MaxRegistry
    /\ LET r == load_entries(model_registry, listing)
       IN  /\ model_registry' = r.registry
           /\ outcome' = [op |-> "load", cls |-> None, exc |-> r.exc, discovery |-> None]
           /\ registry_loaded' = (registry_loaded \/ r.exc = None)
    /\ registry0' = model_registry
    /\ table0' = backend_registry
    /\ req0' = NoSpec
    /\ req' = NoSpec
    /\ raw' = NoRaw
    /\ UNCHANGED <<listing, backend_registry, discovered, msVars, brVars, remVars, thrVars>>

\* get_backend_for(model_spec), called once the caller has let go of what the
\* previous call gave it
GetBackendFor(model_spec, has_creds) ==
    /\ outcome.op \notin {"resolve", "resolve_again"}
    /\ LET r == get_backend_for(model_spec, model_registry, backend_registry, has_creds)
           stored == r.discovery /= None /\ r.discovery \in DOMAIN r.table
       IN  /\ req' = r.spec
           /\ model_registry' = r.registry
           /\ backend_registry' = r.table
           /\ outcome' = [op |-> "resolve", cls |-> r.cls, exc |-> r.exc,
                          discovery |-> r.discovery]
           /\ discovered' = IF stored /\ discovered[r.discovery] < 2
                            THEN [discovered EXCEPT ![r.discovery] = @ + 1]
                            ELSE discovered
    /\ req0' = model_spec
    /\ registry0' = model_registry
    /\ table0' = backend_registry
    /\ raw' = NoRaw
    /\ UNCHANGED <<listing, registry_loaded, msVars, brVars, remVars, thrVars>>

\* get_backend_for(model_spec) called again with the spec object the previous
\* call was given and has merged into.
ResolveAgain(has_creds) ==
    /\ outcome.op = "resolve"
    /\ LET r == get_backend_for(req, model_registry, backend_registry, has_creds)
           stored == r.discovery /= None /\ r.discovery \in DOMAIN r.table
       IN  /\ req' = r.spec
           /\ model_registry' = r.registry
           /\ backend_registry' = r.table
           /\ outcome' = [op |-> "resolve_again", cls |-> r.cls, exc |-> r.exc,
                          discovery |-> r.discovery]
           /\ discovered' = IF stored /\ discovered[r.discovery] < 2
                            THEN [discovered EXCEPT ![r.discovery] = @ + 1]
                            ELSE discovered
    /\ req0' = req
    /\ registry0' = model_registry
    /\ table0' = backend_registry
    /\ raw' = NoRaw
    /\ UNCHANGED <<listing, registry_loaded, msVars, brVars, remVars, thrVars>>

\* The caller drops the spec and the backend of its last call.
Discard ==
    /\ outcome.op \in {"resolve", "resolve_again"}
    /\ outcome' = NoOutcome
    /\ req0' = NoSpec
    /\ req' = NoSpec
    /\ registry0' = model_registry
    /\ table0' = backend_registry
    /\ UNCHANGED <<listing, raw, model_registry, backend_registry, discovered, registry_loaded,
                   msVars, brVars, remVars, thrVars>>

\* ModelSpec.from_dict(spec), called before the registry is loaded.
FromDict(spec) ==
    /\ outcome.op = "none"
    /\ model_registry = <<>>
    /\ backend_registry = EmptyTable
    /\ LET made == from_dict(spec, ObjId("raw"))
       IN  /\ req' = IF made.exc = None THEN made.spec ELSE NoSpec
           /\ outcome' = [op |-> "from_dict", cls |-> None, exc |-> made.exc,
                          discovery |-> None]
    /\ raw' = spec
    /\ req0' = NoSpec
    /\ registry0' = model_registry
    /\ table0' = backend_registry
    /\ UNCHANGED <<listing, model_registry, backend_registry, discovered, registry_loaded, msVars,
                   brVars, remVars, thrVars>>

ResNext ==
    \/ InitModelRegistry
    \/ \E spec \in RawMappings : FromDict(spec)
    \/ Discard
    \/ \E model_spec \in CallerSpecs, has_creds \in BOOLEAN :
           GetBackendFor(model_spec, has_creds)
    \/ \E has_creds \in BOOLEAN : ResolveAgain(has_creds)

(***************************************************************************)
(* Live bridge: Slurk and ClemBot                                          *)
(***************************************************************************)
MaxEvents == 2
MaxTurns == 2
\* The length of a wait's timeout (5 * 60 seconds), in clock ticks.
TimeoutTicks == 2
\* @retry(tries=3, delay=0) on Slurk.generate_response
RetryTries == 3

room_id == "room"
user_id == "clem_bot"
Rooms == {"room", "other_room"}
Users == {"clem_bot", "human"}
EventKinds == {"text_message", "status"}
Filler == "Nothing has been said yet."
Histories == {<<>>, <<"prompt", "answer">>}

\* The REST calls of prepare_and_wait_for_participant, then connect and join.
PrepareSteps ==
    <<"create_room_layout", "create_bot_permissions", "create_user_permissions",
      "create_room", "create_bot_token", "create_user", "create_user_token",
      "connect", "join_room">>

\* The statements of wait_for_user_response.
TurnPcs == {"emit", "wait", "clear_event", "read", "clear_buffer", "return"}

NoReply == [kind |-> "none", text |-> 0, exc |-> None]
Returned(text) == [kind |-> "return", text |-> text, exc |-> None]
Raised(exc) == [kind |-> "raise", text |-> 0, exc |-> exc]

NoEvent == [kind |-> None, room |-> None, user |-> None, id |-> 0, wait |-> 0]

\* The guards without the comparison of the sender with the bot's own id.
passes_filters_room_only(data) ==
    IF data.room /= room_id THEN FALSE
    ELSE TRUE

\* The two guards that open store_and_unblock and check_and_unblock.
passes_filters(data) ==
    IF data.room /= room_id THEN FALSE
    ELSE IF data.user = user_id THEN FALSE
    ELSE TRUE

\* The statement a callback runs after its guards.
first_statement(data) ==
    IF ~passes_filters(data) THEN "idle"
    ELSE IF data.kind = "text_message" THEN "append"
    ELSE "set"

\* A wait that gives up as soon as it finds the flag unset.
event_wait_impatient(flag, elapsed) ==
    IF flag THEN "True"
    ELSE "False"

\* A wait without a timeout.
event_wait_forever(flag, elapsed) ==
    IF flag THEN "True"
    ELSE "blocked"

\* sync_event.wait(timeout=5 * 60): returns True once the flag is set, False
\* once the timeout elapsed with the flag unset, and blocks until then.
event_wait(flag, elapsed) ==
    IF flag THEN "True"
    ELSE IF elapsed >= TimeoutTicks THEN "False"
    ELSE "blocked"

\* The content of the first entry of the history instead of the last.
latest_response_first(msgs) == IF msgs /= <<>> THEN msgs[1] ELSE Filler

latest_response(msgs) == IF msgs /= <<>> THEN msgs[Len(msgs)] ELSE Filler

BrIdle ==
    /\ sync_event = FALSE
    /\ user_messages = <<>>
    /\ wpc = "off"
    /\ epc = "idle"
    /\ ecur = NoEvent
    /\ arrived = 0
    /\ accepted = <<>>
    /\ waitno = 0
    /\ turn = 0
    /\ tries = 0
    /\ messages = <<>>
    /\ user_response = 0
    /\ reply = NoReply
    /\ emitted = <<>>
    /\ woken = None
    /\ waited = 0
    /\ admitted = 0
    /\ steps = <<>>

\* A Slurk backend whose prepare_and_wait_for_participant is about to run.
BrInit ==
    /\ sync_event = FALSE
    /\ user_messages = <<>>
    /\ wpc = PrepareSteps[1]
    /\ epc = "idle"
    /\ ecur = NoEvent
    /\ arrived = 0
    /\ accepted = <<>>
    /\ waitno = 0
    /\ turn = 0
    /\ tries = 0
    /\ messages = <<>>
    /\ user_response = 0
    /\ reply = NoReply
    /\ emitted = <<>>
    /\ woken = None
    /\ waited = 0
    /\ admitted = 0
    /\ steps = <<>>

\* self.clem_bot is the connected bot from line 41 on, also after a later
\* statement of prepare_and_wait_for_participant raised.
Connected == \E i \in DOMAIN steps : steps[i] = "connect"

\* -- event thread --------------------------------------------------------
\* An inbound event reaches its callback, which runs its two guards.
Deliver(kind, room, user) ==
    /\ Connected
    /\ epc = "idle"
    /\ arrived < MaxEvents
    /\ arrived' = arrived + 1
    /\ ecur' = [kind |-> kind, room |-> room, user |-> user, id |-> arrived + 1,
                wait |-> IF wpc \in TurnPcs THEN waitno ELSE 0]
    /\ epc' = first_statement(ecur')
    /\ admitted' = IF room = room_id /\ user /= user_id THEN admitted + 1 ELSE admitted
    /\ UNCHANGED <<sync_event, user_messages, wpc, accepted, waitno, turn, tries, messages,
                   user_response, reply, emitted, woken, waited, steps, msVars, resVars,
                   remVars, thrVars>>

\* self.user_messages.append(data["message"])
StoreAppend ==
    /\ epc = "append"
    /\ user_messages' = Append(user_messages, ecur.id)
    /\ accepted' = Append(accepted, [id |-> ecur.id, wait |-> ecur.wait])
    /\ epc' = "set"
    /\ UNCHANGED <<sync_event, wpc, ecur, arrived, waitno, turn, tries, messages,
                   user_response, reply, emitted, woken, waited, admitted,
                   steps, msVars, resVars, remVars, thrVars>>

\* self.sync_event.set()
Unblock ==
    /\ epc = "set"
    /\ sync_event' = TRUE
    /\ epc' = "idle"
    /\ UNCHANGED <<user_messages, wpc, ecur, arrived, accepted, waitno, turn, tries, messages,
                   user_response, reply, emitted, woken, waited, admitted,
                   steps, msVars, resVars, remVars, thrVars>>

\* -- waiter thread -------------------------------------------------------
\* One call of prepare_and_wait_for_participant before the wait; a failed
\* request raises out of it.
Prepare(ok) ==
    /\ \E i \in 1..Len(PrepareSteps) :
           /\ wpc = PrepareSteps[i]
           /\ wpc' = IF ~ok THEN "prepare_failed"
                     ELSE IF i < Len(PrepareSteps) THEN PrepareSteps[i + 1]
                     ELSE "join_wait"
    /\ reply' = IF ok THEN reply ELSE Raised("HTTPError")
    /\ steps' = IF ok THEN Append(steps, wpc) ELSE steps
    /\ UNCHANGED <<sync_event, user_messages, epc, ecur, arrived, accepted, waitno, turn,
                   tries, messages, user_response, emitted, woken, waited, admitted,
                   msVars, resVars, remVars, thrVars>>

\* Time passes while a wait is blocked.
Tick ==
    /\ wpc \in {"join_wait", "wait"}
    /\ event_wait(sync_event, waited) = "blocked"
    /\ waited < TimeoutTicks
    /\ waited' = waited + 1
    /\ UNCHANGED <<sync_event, user_messages, wpc, epc, ecur, arrived, accepted, waitno, turn,
                   tries, messages, user_response, reply, emitted, woken, admitted,
                   steps, msVars, resVars, remVars, thrVars>>

\* wait_for_participant: sync_event.wait returned True
JoinSignalled ==
    /\ wpc = "join_wait"
    /\ event_wait(sync_event, waited) = "True"
    /\ wpc' = "join_clear"
    /\ woken' = "signal"
    /\ UNCHANGED <<sync_event, user_messages, epc, ecur, arrived, accepted, waitno, turn,
                   tries, messages, user_response, reply, emitted, waited, admitted,
                   steps, msVars, resVars, remVars, thrVars>>

\* wait_for_participant: the timeout elapsed with the flag unset
JoinTimeout ==
    /\ wpc = "join_wait"
    /\ event_wait(sync_event, waited) = "False"
    /\ wpc' = "join_failed"
    /\ woken' = "timeout"
    /\ reply' = Raised("RuntimeError")
    /\ UNCHANGED <<sync_event, user_messages, epc, ecur, arrived, accepted, waitno, turn,
                   tries, messages, user_response, emitted, waited, admitted,
                   steps, msVars, resVars, remVars, thrVars>>

\* wait_for_participant: self.sync_event.clear()
JoinClear ==
    /\ wpc = "join_clear"
    /\ sync_event' = FALSE
    /\ wpc' = "active"
    /\ steps' = Append(steps, "participant_joined")
    /\ UNCHANGED <<user_messages, epc, ecur, arrived, accepted, waitno, turn, tries, messages,
                   user_response, reply, emitted, woken, waited, admitted,
                   msVars, resVars, remVars, thrVars>>

\* generate_response(messages) on a bridge whose
\* prepare_and_wait_for_participant has not reached line 41: self.clem_bot is None, so
\* each of the attempts raises AttributeError before anything is emitted.
GenerateUnprepared(msgs) ==
    /\ wpc \in {PrepareSteps[1], "prepare_failed"}
    /\ ~Connected
    /\ turn' = turn + 1
    /\ tries' = 0
    /\ messages' = msgs
    /\ emitted' = <<>>
    /\ reply' = Raised("AttributeError")
    /\ wpc' = "not_prepared"
    /\ UNCHANGED <<sync_event, user_messages, epc, ecur, arrived, accepted, waitno, woken,
                   user_response, waited, admitted, steps, msVars, resVars, remVars,
                   thrVars>>

\* generate_response(messages) is called on a bridge whose clem_bot is set:
\* after prepare_and_wait_for_participant returned, or after it raised past
\* line 41.
GenerateResponse(msgs) ==
    /\ wpc \in {"active", "prepare_failed", "join_failed"}
    /\ Connected
    /\ turn < MaxTurns
    /\ turn' = turn + 1
    /\ tries' = RetryTries
    /\ messages' = msgs
    /\ emitted' = <<>>
    /\ reply' = NoReply
    /\ user_response' = 0
    /\ wpc' = "emit"
    /\ UNCHANGED <<sync_event, user_messages, epc, ecur, arrived, accepted, waitno, woken,
                   waited, admitted,
                   steps, msVars, resVars, remVars, thrVars>>

\* wait_for_user_response: self.sio.emit("text", ...)
Emit ==
    /\ wpc = "emit"
    /\ waitno' = waitno + 1
    /\ emitted' = Append(emitted, [message |-> latest_response(messages), room |-> room_id])
    /\ wpc' = "wait"
    /\ waited' = 0
    /\ UNCHANGED <<sync_event, user_messages, epc, ecur, arrived, accepted, turn, tries,
                   messages, user_response, reply, woken, admitted, steps, msVars, resVars,
                   remVars, thrVars>>

\* wait_for_user_response: sync_event.wait returns, signalled or timed out
Wait ==
    /\ wpc = "wait"
    /\ event_wait(sync_event, waited) /= "blocked"
    /\ woken' = IF event_wait(sync_event, waited) = "True" THEN "signal" ELSE "timeout"
    /\ wpc' = "clear_event"
    /\ UNCHANGED <<sync_event, user_messages, epc, ecur, arrived, accepted, waitno, turn,
                   tries, messages, user_response, reply, emitted, waited, admitted,
                   steps, msVars, resVars, remVars, thrVars>>

\* wait_for_user_response: self.sync_event.clear()
ClearEvent ==
    /\ wpc = "clear_event"
    /\ sync_event' = FALSE
    /\ wpc' = "read"
    /\ UNCHANGED <<user_messages, epc, ecur, arrived, accepted, waitno, turn, tries, messages,
                   user_response, reply, emitted, woken, waited, admitted,
                   steps, msVars, resVars, remVars, thrVars>>

\* wait_for_user_response: user_response = self.user_messages[0]
ReadFirst ==
    /\ wpc = "read"
    /\ user_messages /= <<>>
    /\ user_response' = user_messages[1]
    /\ wpc' = "clear_buffer"
    /\ UNCHANGED <<sync_event, user_messages, epc, ecur, arrived, accepted, waitno, turn,
                   tries, messages, reply, emitted, woken, waited, admitted,
                   steps, msVars, resVars, remVars, thrVars>>

\* user_messages[0] on an empty list raises IndexError; the retry decorator
\* calls generate_response again while attempts are left, else re-raises.
ReadRaises ==
    /\ wpc = "read"
    /\ user_messages = <<>>
    /\ tries' = tries - 1
    /\ IF tries' > 0
       THEN wpc' = "emit" /\ reply' = reply
       ELSE wpc' = "active" /\ reply' = Raised("IndexError")
    /\ UNCHANGED <<sync_event, user_messages, epc, ecur, arrived, accepted, waitno, turn,
                   messages, user_response, emitted, woken, waited, admitted,
                   steps, msVars, resVars, remVars, thrVars>>

\* wait_for_user_response: self.user_messages.clear()
ClearBuffer ==
    /\ wpc = "clear_buffer"
    /\ user_messages' = <<>>
    /\ wpc' = "return"
    /\ UNCHANGED <<sync_event, epc, ecur, arrived, accepted, waitno, turn, tries, messages,
                   user_response, reply, emitted, woken, waited, admitted,
                   steps, msVars, resVars, remVars, thrVars>>

\* wait_for_user_response: return user_response
Return ==
    /\ wpc = "return"
    /\ reply' = Returned(user_response)
    /\ wpc' = "active"
    /\ UNCHANGED <<sync_event, user_messages, epc, ecur, arrived, accepted, waitno, turn,
                   tries, messages, user_response, emitted, woken, waited, admitted,
                   steps, msVars, resVars, remVars, thrVars>>

BrNext ==
    \/ \E kind \in EventKinds, room \in Rooms, user \in Users : Deliver(kind, room, user)
    \/ StoreAppend
    \/ Unblock
    \/ \E ok \in BOOLEAN : Prepare(ok)
    \/ Tick
    \/ JoinSignalled
    \/ JoinTimeout
    \/ JoinClear
    \/ \E msgs \in Histories : GenerateUnprepared(msgs)
    \/ \E msgs \in Histories : GenerateResponse(msgs)
    \/ Emit
    \/ Wait
    \/ ClearEvent
    \/ ReadFirst
    \/ ReadRaises
    \/ ClearBuffer
    \/ Return

(***************************************************************************)
(* Remote-API backends: generate_response under the retry decorator        *)
(***************************************************************************)
MaxCalls == 2

RemoteClasses == {"Anthropic", "Mistral", "AlephAlpha"}

\* What the remote service does with one request: it answers with one of two
\* texts, answers with a message whose role is not assistant, or the client
\* raises.
Texts == {1, 2}
RemoteFailures == {"APIError", "Timeout"}
RemoteBehaviours ==
    {[kind |-> "completion", text |-> t] : t \in Texts}
    \cup {[kind |-> "wrong_role", text |-> t] : t \in Texts}
    \cup {[kind |-> f, text |-> 0] : f \in RemoteFailures}

\* Whether the class has a method get_temperature: Backend defines none and
\* no backend class adds one.
has_get_temperature(backend_cls) == FALSE

\* One run of the body of generate_response: the exception it raises (or
\* None), the text it returns and the requests it made to the service.
\* Anthropic and Mistral evaluate self.get_temperature() for the request's
\* arguments; Mistral checks the role of the answer.
attempt(backend_cls, remote) ==
    IF backend_cls \in {"Anthropic", "Mistral"} /\ ~has_get_temperature(backend_cls)
    THEN [exc |-> "AttributeError", text |-> 0, requests |-> 0]
    ELSE IF remote.kind \in RemoteFailures
    THEN [exc |-> remote.kind, text |-> 0, requests |-> 1]
    ELSE IF backend_cls = "Mistral" /\ remote.kind = "wrong_role"
    THEN [exc |-> "AttributeError", text |-> 0, requests |-> 1]
    ELSE [exc |-> None, text |-> remote.text, requests |-> 1]

\* A retry loop that allows one attempt more.
retry_next_one_more(tries_left, exc) ==
    IF exc = None THEN "return"
    ELSE IF tries_left = 0 THEN "raise"
    ELSE "again"

\* The retry decorator after an attempt made with tries_left attempts left:
\* the result is returned; on an exception _tries is decremented and the
\* exception re-raised when no attempt is left.
retry_next(tries_left, exc) ==
    IF exc = None THEN "return"
    ELSE IF tries_left - 1 = 0 THEN "raise"
    ELSE "again"

RemIdle ==
    /\ rcls = None
    /\ rpc = "off"
    /\ rtries = 0
    /\ rmessages = <<>>
    /\ rlog = <<>>
    /\ rreply = NoReply
    /\ rcalls = 0

\* A constructed remote-API backend of some class.
RemInit ==
    /\ rcls \in RemoteClasses
    /\ rpc = "idle"
    /\ rtries = 0
    /\ rmessages = <<>>
    /\ rlog = <<>>
    /\ rreply = NoReply
    /\ rcalls = 0

\* generate_response(messages) is called: the decorator starts its loop.
RemoteCall(msgs) ==
    /\ rpc = "idle"
    /\ rcalls < MaxCalls
    /\ rcalls' = rcalls + 1
    /\ rmessages' = msgs
    /\ rtries' = RetryTries
    /\ rlog' = <<>>
    /\ rreply' = NoReply
    /\ rpc' = "attempt"
    /\ UNCHANGED <<rcls, msVars, resVars, brVars, thrVars>>

\* One pass of the decorator's loop: the body runs, then the loop returns,
\* raises or goes round again.
RemoteAttempt(remote) ==
    /\ rpc = "attempt"
    /\ LET r == attempt(rcls, remote)
           next == retry_next(rtries, r.exc)
       IN  /\ rlog' = Append(rlog, [exc |-> r.exc, text |-> r.text,
                                    requests |-> r.requests, remote |-> remote.kind])
           /\ rtries' = IF r.exc = None THEN rtries ELSE rtries - 1
           /\ rpc' = IF next = "again" THEN "attempt" ELSE "idle"
           /\ rreply' = CASE next = "return" -> Returned(r.text)
                           [] next = "raise" -> Raised(r.exc)
                           [] OTHER -> rreply
    /\ UNCHANGED <<rcls, rmessages, rcalls, msVars, resVars, brVars, thrVars>>

RemNext ==
    \/ \E msgs \in Histories : RemoteCall(msgs)
    \/ \E remote \in RemoteBehaviours : RemoteAttempt(remote)

(***************************************************************************)
(* Concurrent resolutions: two threads in _load_backend_for                *)
(***************************************************************************)
Threads == {1, 2}

NoResult == [kind |-> "none", cls |-> None, exc |-> None, registered |-> FALSE]

\* A registration that refuses a name the table already holds.
store_backend_once(table, backend_name, backend_cls) ==
    IF backend_name \in DOMAIN table
    THEN [table |-> table, exc |-> "KeyError"]
    ELSE [table |-> (backend_name :> backend_cls) @@ table, exc |-> None]

\* _backend_registry[backend_name] = backend_cls
store_backend(table, backend_name, backend_cls) ==
    [table |-> (backend_name :> backend_cls) @@ table, exc |-> None]

ThrIdle ==
    /\ tname = [t \in Threads |-> None]
    /\ tpc = [t \in Threads |-> "off"]
    /\ tfound = [t \in Threads |-> None]
    /\ tresult = [t \in Threads |-> NoResult]

\* Each thread is about to run _load_backend_for on a spec with a backend
\* name; the backend table is empty.
ThrInit ==
    /\ tname \in [Threads -> BackendNames]
    /\ tpc = [t \in Threads |-> "check"]
    /\ tfound = [t \in Threads |-> None]
    /\ tresult = [t \in Threads |-> NoResult]

ThrFinish(t, kind, cls, exc) ==
    /\ tpc' = [tpc EXCEPT ![t] = "done"]
    /\ tresult' = [tresult EXCEPT ![t] = [kind |-> kind, cls |-> cls, exc |-> exc,
                                          registered |-> tfound[t] /= None]]

\* _load_backend_for: if backend_name not in _backend_registry
ThrCheck(t) ==
    /\ tpc[t] = "check"
    /\ tpc' = [tpc EXCEPT ![t] = IF tname[t] \notin DOMAIN backend_registry
                                 THEN "isfile" ELSE "read"]
    /\ UNCHANGED <<tname, tfound, tresult, msVars, resVars, brVars, remVars>>

\* _register_backend: os.path.isfile(backend_path)
ThrIsFile(t) ==
    /\ tpc[t] = "isfile"
    /\ IF UnitExists(tname[t])
       THEN tpc' = [tpc EXCEPT ![t] = "import"] /\ UNCHANGED tresult
       ELSE ThrFinish(t, "raise", None, "FileNotFoundError")
    /\ UNCHANGED <<tname, tfound, msVars, resVars, brVars, remVars>>

\* _register_backend: import_module, getmembers and the two tests on the
\* number of Backend classes found
ThrImport(t) ==
    /\ tpc[t] = "import"
    /\ LET backend_subclasses == BackendClasses(tname[t])
       IN  IF Cardinality(backend_subclasses) = 0
           THEN ThrFinish(t, "raise", None, "LookupError: no Backend") /\ UNCHANGED tfound
           ELSE IF Cardinality(backend_subclasses) > 1
           THEN /\ ThrFinish(t, "raise", None, "LookupError: more than one Backend")
                /\ UNCHANGED tfound
           ELSE /\ tfound' = [tfound EXCEPT ![t] = CHOOSE c \in backend_subclasses : TRUE]
                /\ tpc' = [tpc EXCEPT ![t] = "store"]
                /\ UNCHANGED tresult
    /\ UNCHANGED <<tname, msVars, resVars, brVars, remVars>>

\* _register_backend: _backend_registry[backend_name] = backend_cls
ThrStore(t) ==
    /\ tpc[t] = "store"
    /\ LET stored == store_backend(backend_registry, tname[t], tfound[t])
       IN  /\ backend_registry' = stored.table
           /\ IF stored.exc = None
              THEN tpc' = [tpc EXCEPT ![t] = "read"] /\ UNCHANGED tresult
              ELSE ThrFinish(t, "raise", None, stored.exc)
    /\ UNCHANGED <<tname, tfound, model_registry, listing, raw, registry0, table0, req0, req,
                   outcome, discovered, registry_loaded, msVars, brVars, remVars>>

\* _load_backend_for: backend_cls = _backend_registry[backend_name] and
\* return backend_cls(model_spec)
ThrRead(t) ==
    /\ tpc[t] = "read"
    /\ IF tname[t] \notin DOMAIN backend_registry
       THEN ThrFinish(t, "raise", None, "KeyError")
       ELSE LET backend_cls == backend_registry[tname[t]]
                made == construct(backend_cls, CallerSpec("model1", tname[t], FALSE), TRUE)
            IN  IF made.exc = None
                THEN ThrFinish(t, "return", backend_cls, None)
                ELSE ThrFinish(t, "raise", backend_cls, made.exc)
    /\ UNCHANGED <<tname, tfound, msVars, resVars, brVars, remVars>>

ThrNext ==
    \E t \in Threads :
        \/ ThrCheck(t)
        \/ ThrIsFile(t)
        \/ ThrImport(t)
        \/ ThrStore(t)
        \/ ThrRead(t)

(***************************************************************************)
(* Specifications                                                          *)
(***************************************************************************)
InitModelSpec == PairInit /\ ResIdle /\ BrIdle /\ RemIdle /\ ThrIdle

InitResolver == PairIdle /\ ResInit /\ BrIdle /\ RemIdle /\ ThrIdle

InitBridge == PairIdle /\ ResIdle /\ BrInit /\ RemIdle /\ ThrIdle

InitRemote == PairIdle /\ ResIdle /\ BrIdle /\ RemInit /\ ThrIdle

InitRace == PairIdle /\ ResIdle /\ BrIdle /\ RemIdle /\ ThrInit

SpecModelSpec == InitModelSpec /\ [][PairNext]_vars

SpecResolver == InitResolver /\ [][ResNext]_vars

SpecBridge == InitBridge /\ [][BrNext]_vars

\* The statements of the waiter thread between a wait and its end.
WaiterNext ==
    \/ JoinSignalled
    \/ JoinTimeout
    \/ JoinClear
    \/ Emit
    \/ Wait
    \/ ClearEvent
    \/ ReadFirst
    \/ ReadRaises
    \/ ClearBuffer
    \/ Return

\* The bridge with time that passes while a wait blocks and a waiter thread
\* that runs whenever it can.
SpecBridgeFair == SpecBridge /\ WF_vars(Tick) /\ WF_vars(WaiterNext)

SpecRemote == InitRemote /\ [][RemNext]_vars

SpecRace == InitRace /\ [][ThrNext]_vars

(***************************************************************************)
(* Properties of ModelSpec (SpecModelSpec)                                 *)
(***************************************************************************)
Merged(before, other, field) == IF before[field] /= None THEN before[field] ELSE other[field]

\* C1: after a.update(b), each of backend, model_id and temperature that a
\* had set keeps its value and each that a lacked has b's value; a.opts has
\* exactly the keys of a.opts-before and b.opts, a's keys with a's values and
\* the others with b's.
C1_UpdateFillsGaps ==
    op \in {"update", "update_again"} =>
        /\ \A f \in {"backend", "model_id", "temperature"} : a[f] = Merged(a0, b0, f)
        /\ a.model_name = a0.model_name
        /\ DOMAIN a.opts.d = (DOMAIN a0.opts.d) \cup (DOMAIN b0.opts.d)
        /\ \A k \in DOMAIN a.opts.d :
               a.opts.d[k] = IF k \in DOMAIN a0.opts.d THEN a0.opts.d[k] ELSE b0.opts.d[k]

\* A merge in which a keeps a set field b disagrees on, takes an unset one
\* from b, and the options overlap on one key while b alone has the other.
C1_Witness ==
    /\ op = "update"
    /\ a0.backend = None /\ b0.backend /= None /\ a.backend = b0.backend
    /\ a0.temperature = "0.0" /\ b0.temperature = "0.7" /\ a.temperature = "0.0"
    /\ a0.model_id = "id1" /\ b0.model_id = "id2"
    /\ DOMAIN a0.opts.d = {"k1"} /\ DOMAIN b0.opts.d = {"k1", "k2"}
    /\ a0.opts.d["k1"] /= b0.opts.d["k1"]
    /\ a.opts.d["k1"] = a0.opts.d["k1"] /\ a.opts.d["k2"] = b0.opts.d["k2"]

\* C2: a.matches(b) is true iff the names are equal and a's backend is unset
\* or equal to b's; nothing else of either spec enters the result.
C2_MatchesNameAndBackend ==
    op = "matches" =>
        ret = (/\ a.model_name = b.model_name
               /\ (a.backend = None \/ a.backend = b.backend))

\* A match of a backend-less spec against one that differs in backend,
\* model_id, temperature and options.
C2_Witness ==
    /\ op = "matches"
    /\ ret = TRUE
    /\ a.backend = None /\ b.backend /= None
    /\ a.model_id /= b.model_id
    /\ a.temperature /= b.temperature
    /\ a.opts.d /= b.opts.d

(***************************************************************************)
(* Properties of resolution and discovery (SpecResolver)                   *)
(***************************************************************************)
Resolved == outcome.op = "resolve"

Sentinel(s) == is_human(s) \/ is_programmatic(s)

\* The registry entries a caller's name selects.
Named(registry, name) == {i \in DOMAIN registry : registry[i].model_name = name}

Minimal(s) == s.model_id = None /\ s.temperature = None /\ DOMAIN s.opts.d = {}

\* A backend name whose unit exists and defines exactly one Backend class.
Discoverable(n) == UnitExists(n) /\ Cardinality(BackendClasses(n)) = 1

\* C3: a spec that sets only a name, resolved against a registry whose
\* entries of that name have backend X and nothing else, with X's unit and
\* credentials in place, yields a backend of X's class whose spec has
\* backend X, model_id equal to the name and temperature 0.0.
C3_ResolveByName ==
    \A X \in BackendNames :
        (/\ Resolved
         /\ ~Sentinel(req0)
         /\ req0.backend = None /\ Minimal(req0)
         /\ Named(registry0, req0.model_name) /= {}
         /\ \A i \in Named(registry0, req0.model_name) :
                registry0[i].backend = X /\ Minimal(registry0[i])
         /\ Discoverable(X)
         /\ outcome.exc /= "AssertionError")
        => /\ outcome.exc = None
           /\ outcome.cls \in BackendClasses(X)
           /\ req.backend = X
           /\ req.model_id = req0.model_name
           /\ req.temperature = "0.0"

\* C4: a spec that sets backend Y, with Y's unit and credentials in place,
\* resolves against any registry to a backend of Y's class whose spec has
\* backend Y.
C4_ExplicitBackendWins ==
    (/\ Resolved
     /\ ~Sentinel(req0)
     /\ req0.backend /= None
     /\ Discoverable(req0.backend)
     /\ outcome.exc /= "AssertionError")
    => /\ outcome.exc = None
       /\ outcome.cls \in BackendClasses(req0.backend)
       /\ req.backend = req0.backend

\* C5: a non-sentinel spec without backend whose name no registry entry
\* carries fails with ValueError; no discovery runs and the backend table is
\* as it was.
C5_UnknownNameFails ==
    (/\ Resolved
     /\ ~Sentinel(req0)
     /\ req0.backend = None
     /\ Named(registry0, req0.model_name) = {})
    => /\ outcome.exc = "ValueError"
       /\ outcome.cls = None
       /\ outcome.discovery = None
       /\ backend_registry = table0

\* An unknown name resolved against a registry that holds entries of other
\* names, with a backend already in the table.
C5_Witness ==
    /\ Resolved
    /\ req0.model_name = "model2" /\ req0.backend = None
    /\ model_registry /= <<>>
    /\ DOMAIN table0 /= {}
    /\ outcome.exc = "ValueError"

\* C6: an entry of the backend table is never replaced or removed, discovery
\* succeeds at most once per name, and a resolution whose backend is in the
\* table runs no discovery and uses the stored constructor.
C6_DiscoveryMemoized ==
    /\ \A n \in DOMAIN table0 :
           n \in DOMAIN backend_registry /\ backend_registry[n] = table0[n]
    /\ \A n \in BackendNames : discovered[n] <= 1
    /\ (Resolved /\ ~Sentinel(req0) /\ req.backend \in DOMAIN table0)
       => /\ outcome.discovery = None
          /\ outcome.cls /= None => outcome.cls = table0[req.backend]

\* A resolution that found its backend in the table and built from the
\* stored constructor.
C6_Witness ==
    /\ Resolved
    /\ ~Sentinel(req0)
    /\ req.backend \in DOMAIN table0
    /\ discovered[req.backend] = 1
    /\ outcome.discovery = None
    /\ outcome.cls = table0[req.backend]

\* C7: a discovery stores a constructor iff the unit exists and defines
\* exactly one Backend class; a missing unit raises FileNotFoundError, a unit
\* without Backend class LookupError, a unit with several the LookupError of
\* the ambiguous case, and a failed discovery leaves the table as it was.
C7_DiscoveryOutcome ==
    (Resolved /\ outcome.discovery /= None) =>
        LET n == outcome.discovery
            k == Cardinality(BackendClasses(n))
        IN  /\ n \in DOMAIN backend_registry <=> Discoverable(n)
            /\ Discoverable(n) => backend_registry[n] \in BackendClasses(n)
            /\ ~UnitExists(n) => outcome.exc = "FileNotFoundError"
            /\ (UnitExists(n) /\ k = 0) => outcome.exc = "LookupError: no Backend"
            /\ (UnitExists(n) /\ k > 1) => outcome.exc = "LookupError: more than one Backend"
            /\ ~Discoverable(n) => backend_registry = table0

\* A discovery refused as ambiguous after another one succeeded.
C7_Witness ==
    /\ Resolved
    /\ outcome.discovery = "ambiguous"
    /\ outcome.exc = "LookupError: more than one Backend"
    /\ "anthropic" \in DOMAIN backend_registry
    /\ "ambiguous" \notin DOMAIN backend_registry

(***************************************************************************)
(* Properties of the live bridge (SpecBridge)                              *)
(***************************************************************************)
\* C8: every step that sets the signal or adds to the buffer belongs to the
\* callback of an event of the bridge's room whose sender is not the bot; an
\* event of the bot itself or of another room therefore sets and adds
\* nothing, and no wait is woken by it.
C8_IgnoredEventsWriteNothing ==
    [][(\/ sync_event' /\ ~sync_event
        \/ Len(user_messages') > Len(user_messages))
       => (ecur.room = room_id /\ ecur.user /= user_id)]_vars

\* The bot's own text message arrived in the room during a per-turn wait:
\* the callback returned, the signal is unset and the buffer empty.
C8_Witness ==
    /\ wpc = "wait"
    /\ epc = "idle"
    /\ ecur.kind = "text_message" /\ ecur.room = room_id /\ ecur.user = user_id
    /\ ecur.wait = waitno
    /\ ~sync_event
    /\ user_messages = <<>>

\* The accepted messages that arrived during the wait numbered w.
During(w) == SelectSeq(accepted, LAMBDA m : m.wait = w)

Replied == wpc = "active" /\ reply.kind = "return"

\* C9: the reply a per-turn wait returns is the first accepted text message
\* that arrived after that wait began; stated here for the waits the signal
\* woke, which leaves the timeout path aside.
C9_ReplyIsFirstOfItsWait ==
    (Replied /\ woken = "signal") =>
        (During(waitno) /= <<>> /\ reply.text = During(waitno)[1].id)

\* C10: at the moment wait_for_user_response returns a reply the buffer is
\* empty.
C10_BufferEmptyAtReturn ==
    [][(wpc = "return" /\ wpc' = "active") => user_messages' = <<>>]_vars

\* C11: wait_for_participant returns only after an event of the room from a
\* non-bot identity arrived, and its last step leaves the signal cleared; it
\* raises RuntimeError when it leaves the wait with no such event arrived,
\* and it never raises before the whole timeout has elapsed.
C11_JoinWait ==
    [][/\ (wpc = "join_clear" /\ wpc' = "active") => (admitted >= 1 /\ ~sync_event')
       /\ (wpc = "join_wait" /\ wpc' /= "join_wait" /\ admitted = 0)
              => (wpc' = "join_failed" /\ reply' = Raised("RuntimeError"))
       /\ (wpc = "join_wait" /\ wpc' = "join_failed")
              => (waited >= TimeoutTicks /\ ~sync_event /\ reply' = Raised("RuntimeError"))
       /\ (wpc = "join_wait" /\ wpc' /= "join_wait")
              => wpc' \in {"join_clear", "join_failed"}]_vars

\* The wait has returned: one status event of the room's human arrived after
\* the wait had blocked for a while, and the signal is clear again.
C11_Witness ==
    /\ wpc = "active"
    /\ turn = 0
    /\ arrived = 1 /\ admitted = 1
    /\ ecur.kind = "status"
    /\ waited >= 1 /\ waited < TimeoutTicks
    /\ woken = "signal"
    /\ ~sync_event

\* C12: a spec with a human sentinel name resolves to the human no-op
\* backend and one with a programmatic sentinel name to the programmatic
\* no-op backend; the registry is not scanned (nothing of an entry, also of
\* one of that name, reaches the caller's spec, whose unset model_id and
\* temperature get the constructor's defaults), no discovery runs, and the
\* registry and the backend table are as before.
C12_SentinelsBypassRegistry ==
    (Resolved /\ req0.model_name \in HUMAN_SPECS \cup PROGRAMMATIC_SPECS) =>
        /\ outcome.exc = None
        /\ outcome.cls = IF req0.model_name \in HUMAN_SPECS
                         THEN "HumanBackend" ELSE "ProgrammaticBackend"
        /\ outcome.discovery = None
        /\ backend_registry = table0
        /\ model_registry = registry0
        /\ req.model_name = req0.model_name
        /\ req.backend = req0.backend
        /\ req.opts = req0.opts
        /\ req.model_id = IF req0.model_id /= None THEN req0.model_id ELSE req0.model_name
        /\ req.temperature = IF req0.temperature /= None THEN req0.temperature ELSE "0.0"

\* The name mock, without backend, resolved against a registry that holds an
\* entry of the name mock with a backend and a model_id.
C12_Witness ==
    /\ Resolved
    /\ req0.model_name = "mock" /\ req0.backend = None /\ Minimal(req0)
    /\ \E i \in Named(registry0, "mock") :
           registry0[i].backend = "anthropic" /\ registry0[i].model_id = "rid"
    /\ outcome.cls = "ProgrammaticBackend"
    /\ req.backend = None /\ req.model_id = "mock"
    /\ backend_registry = EmptyTable

\* C13: a.update(b) leaves b as it was, name, backend, model_id, temperature
\* and option keys and values, also a second time and with overlapping
\* option keys, and a later write into a.opts does not show in b.opts.
C13_UpdateLeavesOtherAlone ==
    op \in {"update", "update_again", "set_opt"} => b = b0

\* After a merge over a shared option key the caller wrote that key of
\* a.opts; b still has its own value.
C13_Witness ==
    /\ op = "set_opt"
    /\ \E k \in (DOMAIN a0.opts.d) \cap (DOMAIN b.opts.d) :
           /\ a.opts.d[k] = NewVal
           /\ a0.opts.d[k] /= b.opts.d[k]
           /\ b.opts.d[k] \in Vals
    /\ a.opts.id /= b.opts.id

\* C14: from_dict on a mapping without model_name raises ValueError; on a
\* mapping with it the result has that name, backend, model_id and
\* temperature as the mapping has them (unset when absent), and opts with
\* exactly the other keys of the mapping and their values.
C14_FromDict ==
    outcome.op = "from_dict" =>
        IF "model_name" \notin DOMAIN raw
        THEN outcome.exc = "ValueError"
        ELSE /\ outcome.exc = None
             /\ req.model_name = raw["model_name"]
             /\ \A f \in {"backend", "model_id", "temperature"} :
                    req[f] = IF f \in DOMAIN raw THEN raw[f] ELSE None
             /\ DOMAIN req.opts.d = (DOMAIN raw) \ RecognizedKeys
             /\ \A k \in DOMAIN req.opts.d : req.opts.d[k] = raw[k]

\* C14, amended: from_dict raises ValueError on a mapping without model_name
\* and on one whose model_name is null; on a mapping with a name the result
\* has that name, backend, model_id and temperature as the mapping has them
\* (unset when absent), and opts with exactly the other keys of the mapping
\* and their values.
C14_FromDictNamed ==
    outcome.op = "from_dict" =>
        IF "model_name" \notin DOMAIN raw \/ pop(raw, "model_name") = None
        THEN outcome.exc = "ValueError"
        ELSE /\ outcome.exc = None
             /\ req.model_name = raw["model_name"]
             /\ \A f \in {"backend", "model_id", "temperature"} :
                    req[f] = IF f \in DOMAIN raw THEN raw[f] ELSE None
             /\ DOMAIN req.opts.d = (DOMAIN raw) \ RecognizedKeys
             /\ \A k \in DOMAIN req.opts.d : req.opts.d[k] = raw[k]

\* A mapping with name, backend, temperature and two free keys but no
\* model_id.
C14_Witness ==
    /\ outcome.op = "from_dict"
    /\ DOMAIN raw = {"model_name", "backend", "temperature", "k1", "k2"}
    /\ req.backend = "anthropic" /\ req.model_id = None /\ req.temperature = "0.7"
    /\ DOMAIN req.opts.d = {"k1", "k2"}
    /\ req.opts.d["k1"] = "v2"

\* The registry entries the caller's spec matches as it is passed in.
Matching(s, registry) == {i \in DOMAIN registry : matches(s, registry[i])}

FirstOf(S) == CHOOSE i \in S : \A j \in S : i <= j

\* C15: what resolution fills into the caller's spec comes from the first
\* registry entry, in registry order, that matches it: backend, model_id,
\* temperature and options are the caller's own where set and that entry's
\* otherwise (model_id and temperature left unset by both are unset or the
\* constructor's default), and no later entry adds anything.
C15_FirstMatchOnly ==
    (Resolved /\ ~Sentinel(req0) /\ Matching(req0, registry0) /= {}) =>
        LET e == registry0[FirstOf(Matching(req0, registry0))]
        IN  /\ req.backend = Merged(req0, e, "backend")
            /\ req.model_id \in {Merged(req0, e, "model_id")}
                   \cup (IF Merged(req0, e, "model_id") = None
                         THEN {req0.model_name} ELSE {})
            /\ req.temperature \in {Merged(req0, e, "temperature")}
                   \cup (IF Merged(req0, e, "temperature") = None THEN {"0.0"} ELSE {})
            /\ DOMAIN req.opts.d = (DOMAIN req0.opts.d) \cup (DOMAIN e.opts.d)
            /\ \A k \in DOMAIN req.opts.d :
                   req.opts.d[k] = IF k \in DOMAIN req0.opts.d
                                   THEN req0.opts.d[k] ELSE e.opts.d[k]

\* C16: once an init_model_registry call has returned normally the model
\* registry stays as it is: no resolution and no further init_model_registry
\* call changes its sequence of entries or a field or option of an entry.
C16_RegistryReadOnly ==
    [][registry_loaded => model_registry' = model_registry]_vars

\* C17: every entry of the model registry has a backend, after any sequence
\* of init_model_registry calls that returned or raised; a load raises
\* ValueError exactly when its listing holds a record without backend or a
\* record without model_name.
C17_EntriesHaveBackend ==
    /\ \A i \in DOMAIN model_registry : model_registry[i].backend /= None
    /\ outcome.op = "load" =>
           IF \E i \in DOMAIN listing :
                  "backend" \notin DOMAIN listing[i] \/ "model_name" \notin DOMAIN listing[i]
           THEN outcome.exc = "ValueError"
           ELSE outcome.exc = None

\* A load that raised on a record without backend after it had appended the
\* record before it.
C17_Witness ==
    /\ outcome.op = "load"
    /\ outcome.exc = "ValueError"
    /\ Len(listing) = 2
    /\ "backend" \in DOMAIN listing[1] /\ "model_name" \in DOMAIN listing[1]
    /\ "backend" \notin DOMAIN listing[2]
    /\ Len(model_registry) = Len(registry0) + 1

\* C18: in every reachable state of the bridge the buffer user_messages
\* holds at most one message.
C18_BufferAtMostOne ==
    Len(user_messages) <= 1

\* C19: a per-turn wait whose timeout elapsed with the signal unset goes on
\* without raising: its read of the buffer leads to the drain and the
\* return, with a non-empty buffer and with an empty one.
C19_TimeoutProceeds ==
    [][(wpc = "read" /\ woken = "timeout" /\ wpc' /= wpc)
       => (wpc' = "clear_buffer" /\ reply'.kind /= "raise")]_vars

(***************************************************************************)
(* Properties of the remote-API backends (SpecRemote)                      *)
(***************************************************************************)
\* C20: a generate_response call on a remote-API backend makes at most 3
\* attempts; every attempt but the last one made has failed, so a success
\* ends the call with that attempt's result; the call raises only after 3
\* failed attempts, and then the exception of the third.
C20_AtMostThreeAttempts ==
    /\ Len(rlog) <= 3
    /\ \A i \in 1..(Len(rlog) - 1) : rlog[i].exc /= None
    /\ rpc = "attempt" =>
           /\ Len(rlog) < 3
           /\ \A i \in 1..Len(rlog) : rlog[i].exc /= None
           /\ rreply = NoReply
    /\ (rpc = "idle" /\ rcalls > 0) =>
           /\ rlog /= <<>>
           /\ IF rlog[Len(rlog)].exc = None
              THEN rreply = Returned(rlog[Len(rlog)].text)
              ELSE Len(rlog) = 3 /\ rreply = Raised(rlog[3].exc)

\* A call that returned the answer of its third attempt after two attempts
\* that failed differently.
C20_Witness ==
    /\ rpc = "idle"
    /\ rcls = "AlephAlpha"
    /\ Len(rlog) = 3
    /\ rlog[1].exc = "Timeout" /\ rlog[2].exc = "APIError" /\ rlog[3].exc = None
    /\ rreply = Returned(2)

\* C21: a Mistral call whose first request the service answers with a
\* message whose role is not assistant ends with that attempt: one request
\* was made, the error is raised to the caller, and no further attempt runs.
C21_RoleErrorNotRetried ==
    (rcls = "Mistral" /\ rlog /= <<>> /\ rlog[1].remote = "wrong_role") =>
        /\ rpc = "idle"
        /\ Len(rlog) = 1
        /\ rlog[1].requests = 1
        /\ rreply = Raised("AttributeError")

(***************************************************************************)
(* Properties of concurrent resolutions (SpecRace)                         *)
(***************************************************************************)
\* What a resolution of that backend name gives when it runs alone on the
\* empty table.
Alone(n) == load_backend_for(EmptyTable, CallerSpec("model1", n, FALSE), TRUE)

\* C22: two threads that resolve the same, not yet discovered backend name
\* end, under every interleaving, with what a resolution running alone
\* gives, the same constructor or the same error for both, and the table
\* holds for that name the constructor a lone discovery stores (no entry
\* when the discovery fails).
C22_RacingDiscoveries ==
    \A t \in Threads, u \in Threads :
        (t /= u /\ tname[t] = tname[u] /\ tpc[t] = "done" /\ tpc[u] = "done") =>
            LET n == tname[t]
            IN  /\ tresult[t].exc = Alone(n).exc
                /\ tresult[t].kind = "return" => tresult[t].cls = Alone(n).cls
                /\ tresult[t].cls = tresult[u].cls
                /\ tresult[t].exc = tresult[u].exc
                /\ n \in DOMAIN backend_registry <=> n \in DOMAIN Alone(n).table
                /\ n \in DOMAIN backend_registry =>
                       backend_registry[n] = Alone(n).table[n]
                /\ DOMAIN backend_registry \subseteq {n}

\* Both threads found the name missing, both ran the discovery and wrote the
\* table, and both returned a backend of the one class.
C22_Witness ==
    /\ tname[1] = "anthropic" /\ tname[2] = "anthropic"
    /\ tpc[1] = "done" /\ tpc[2] = "done"
    /\ tresult[1].registered /\ tresult[2].registered
    /\ tresult[1].kind = "return" /\ tresult[2].kind = "return"
    /\ tresult[1].cls = "Anthropic" /\ tresult[2].cls = "Anthropic"
    /\ DOMAIN backend_registry = {"anthropic"}

\* The backend a resolution ends with: the caller's own, else that of the
\* first registry entry of the caller's name.
FinalBackend(s, registry) ==
    IF s.backend /= None THEN s.backend
    ELSE IF Named(registry, s.model_name) = {} THEN None
    ELSE registry[FirstOf(Named(registry, s.model_name))].backend

\* The entries that match the caller's spec when the scan reaches them.
MatchedInScan(s, registry) ==
    {i \in Named(registry, s.model_name) : registry[i].backend = FinalBackend(s, registry)}

\* The value of the earliest entry among S that sets the field, or None.
EarliestField(registry, S, f) ==
    LET setting == {i \in S : registry[i][f] /= None}
    IN  IF setting = {} THEN None ELSE registry[FirstOf(setting)][f]

\* C23: after the registry scan the caller's spec has, for backend, model_id
\* and temperature, its own value where it had one and otherwise the value
\* of the earliest entry matched in the scan that sets the field (model_id
\* and temperature set by none are unset or the constructor's default);
\* its options are its own keys with its own values and every other key of
\* a matched entry with the value of the earliest matched entry that has it.
C23_CumulativeMerge ==
    (Resolved /\ ~Sentinel(req0)) =>
        LET M == MatchedInScan(req0, registry0)
            expect(f) == IF req0[f] /= None THEN req0[f]
                         ELSE EarliestField(registry0, M, f)
            having(k) == {i \in M : k \in DOMAIN registry0[i].opts.d}
        IN  /\ req.backend = expect("backend")
            /\ req.model_id \in {expect("model_id")}
                   \cup (IF expect("model_id") = None THEN {req0.model_name} ELSE {})
            /\ req.temperature \in {expect("temperature")}
                   \cup (IF expect("temperature") = None THEN {"0.0"} ELSE {})
            /\ DOMAIN req.opts.d =
                   (DOMAIN req0.opts.d) \cup UNION {DOMAIN registry0[i].opts.d : i \in M}
            /\ \A k \in DOMAIN req.opts.d :
                   req.opts.d[k] = IF k \in DOMAIN req0.opts.d THEN req0.opts.d[k]
                                   ELSE registry0[FirstOf(having(k))].opts.d[k]

\* A name-only spec resolved against two matching entries: the first gives
\* temperature and one option, the second the model_id and another option,
\* and where both set a value the first one's stands.
C23_Witness ==
    /\ Resolved
    /\ req0.backend = None /\ Minimal(req0)
    /\ Len(registry0) = 2
    /\ registry0[1].temperature = "0.7" /\ registry0[2].temperature = "0.2"
    /\ registry0[1].model_id = None /\ registry0[2].model_id = "rid"
    /\ req.temperature = "0.7" /\ req.model_id = "rid"
    /\ req.opts.d["k1"] = registry0[1].opts.d["k1"]
    /\ registry0[1].opts.d["k1"] /= registry0[2].opts.d["k1"]
    /\ req.opts.d["k2"] = registry0[2].opts.d["k2"]

\* The spec a resolution hands to the constructor.
Handed(s, registry) == IF Sentinel(s) THEN s ELSE scan(s, registry, 1).spec

\* Whether the last resolution got as far as calling a constructor.
Constructed ==
    Resolved /\ (Sentinel(req0) \/ outcome.exc \in {None, "TypeError", "AssertionError"})

\* C24: a constructor called with a spec leaves it with model_id equal to
\* the name where model_id was unset and as it was where set, temperature
\* 0.0 where unset and as it was where set, and name, backend and opts as
\* they were, whatever the Backend variant.
C24_ConstructorDefaults ==
    Constructed =>
        LET pre == Handed(req0, registry0)
        IN  /\ req.model_id = IF pre.model_id = None THEN pre.model_name ELSE pre.model_id
            /\ req.temperature = IF pre.temperature = None THEN "0.0" ELSE pre.temperature
            /\ req.model_name = pre.model_name
            /\ req.backend = pre.backend
            /\ req.opts = pre.opts

\* C25: a spec whose resolved backend is slurk, with the unit and the
\* credentials in place, resolves to a backend of the class Slurk, built by
\* the discovered constructor from the spec, which comes back with model_id
\* and temperature set as for a remote-API backend.
C25_BridgeResolves ==
    (Resolved /\ ~Sentinel(req0) /\ req.backend = "slurk"
              /\ outcome.exc /= "AssertionError") =>
        LET pre == Handed(req0, registry0)
        IN  /\ outcome.exc = None
            /\ outcome.cls = "Slurk"
            /\ req.model_id = IF pre.model_id = None THEN pre.model_name ELSE pre.model_id
            /\ req.temperature = IF pre.temperature = None THEN "0.0" ELSE pre.temperature

\* C26: a per-turn wait that wakes before its timeout finds at least one
\* message in the buffer: only an accepted text message sets the signal it
\* waits on while it waits, a status event does not.
C26_OnlyTextWakesTurnWait ==
    [][/\ (wpc = "wait" /\ wpc' = "clear_event" /\ woken' = "signal")
           => user_messages /= <<>>
       /\ (wpc = "wait" /\ sync_event' /\ ~sync_event)
           => ecur.kind = "text_message"]_vars

Created ==
    {"create_room_layout", "create_bot_permissions", "create_user_permissions",
     "create_room", "create_bot_token", "create_user", "create_user_token"}

Before(i) == {steps[j] : j \in 1..(i - 1)}

\* C27: the layout, both permission sets, the room, the bot token, the bot
\* user and the user token are created before the bot connects; the bot has
\* connected and joined the room when the wait for the participant starts;
\* and a generate_response call returns a reply only after
\* prepare_and_wait_for_participant has returned, a participant having
\* joined.
C27_LifecycleOrder ==
    /\ \A i \in DOMAIN steps : steps[i] = "connect" => Created \subseteq Before(i)
    /\ wpc \in {"join_wait", "join_clear", "join_failed"}
           => {"connect", "join_room"} \subseteq Before(Len(steps) + 1)
    /\ \A i \in DOMAIN steps :
           steps[i] = "participant_joined"
               => (Created \cup {"connect", "join_room"} \subseteq Before(i) /\ admitted >= 1)
    /\ reply.kind = "return" =>
           (steps /= <<>> /\ steps[Len(steps)] = "participant_joined")

\* The waiter is at a wait that would block, and no callback is between its
\* append and its set.
AboutToBlock == wpc \in {"join_wait", "wait"} /\ ~sync_event /\ epc /= "set"

\* C28: under every interleaving of the callbacks with the steps of the two
\* waits no accepted message is lost or left behind unsignalled: whenever
\* the waiter is about to block with the signal unset the buffer is empty,
\* and the drain of the buffer discards no message but the one the wait
\* returns.
C28_NoMessageLostOrUnsignalled ==
    [][/\ AboutToBlock' => user_messages' = <<>>
       /\ (wpc = "clear_buffer" /\ wpc' = "return")
              => \A i \in DOMAIN user_messages : user_messages[i] = user_response]_vars

\* A generate_response call of the bridge is running.
InCall == wpc \in TurnPcs

\* C29: with time passing and the waiter thread running, every started
\* wait_for_participant ends, returned or raised; every started
\* wait_for_user_response ends, returned or raised into the next attempt or
\* out of the call; and every generate_response call ends with a reply or
\* an exception, having done at most 3 waits.
C29_WaitsAreBounded ==
    /\ (wpc = "join_wait") ~> (wpc \in {"active", "join_failed"})
    /\ (wpc = "wait") ~> (wpc \in {"return", "emit", "active"})
    /\ InCall ~> (wpc = "active" /\ reply.kind \in {"return", "raise"})
    /\ [](InCall => Len(emitted) <= RetryTries)
    /\ [](wpc = "wait" => waitno >= 1 /\ Len(emitted) >= 1)

\* A call that ended after three waits, none of which an event woke.
C29_Witness ==
    /\ wpc = "active"
    /\ turn >= 1
    /\ reply = Raised("IndexError")
    /\ Len(emitted) = RetryTries
    /\ woken = "timeout"
    /\ arrived = admitted /\ user_messages = <<>>

\* The attempts of the running or last generate_response call that failed.
FailedAttempts == RetryTries - tries

\* The outbound event of a cycle for the history of the call.
Outbound ==
    [message |-> IF messages = <<>> THEN Filler ELSE messages[Len(messages)],
     room |-> room_id]

\* C30: every per-turn cycle emits one text event to the bridge's room
\* before it blocks, carrying the content of the last history entry, or the
\* filler when the history is empty; a generate_response call that runs
\* cycles has emitted once per attempt, so between 1 and 3 times, one more
\* than the attempts that failed while an attempt runs or has returned.
C30_OneEmitPerAttempt ==
    /\ \A i \in DOMAIN emitted : emitted[i] = Outbound
    /\ Len(emitted) <= RetryTries
    /\ wpc = "emit" => Len(emitted) = FailedAttempts
    /\ wpc \in TurnPcs \ {"emit"} => Len(emitted) = FailedAttempts + 1
    /\ (wpc = "active" /\ turn >= 1) =>
           /\ Len(emitted) >= 1
           /\ reply.kind = "return" => Len(emitted) = FailedAttempts + 1
           /\ reply.kind = "raise" => (Len(emitted) = FailedAttempts /\ tries = 0)

\* A call with a history of two entries that returned a reply in its second
\* attempt, and so emitted the last entry twice.
C30_Witness ==
    /\ wpc = "active"
    /\ reply.kind = "return"
    /\ Len(messages) = 2
    /\ emitted = <<[message |-> "answer", room |-> room_id],
                   [message |-> "answer", room |-> room_id]>>
    /\ tries = RetryTries - 1

\* The entries of the caller's name whose backend is that of the first one.
SameBackend(s, registry) ==
    LET N == Named(registry, s.model_name)
    IN  {i \in N : registry[i].backend = registry[FirstOf(N)].backend}

\* C31: a spec without backend, resolved against a registry that has
\* entries of its name, gets the backend of the first of them, and every
\* value resolution adds to it (model_id, temperature, each option) is a
\* value of an entry of that name with that same backend, or the
\* constructor's default; nothing comes from an entry of another backend.
C31_NoMixingOfBackends ==
    (/\ Resolved
     /\ ~Sentinel(req0)
     /\ req0.backend = None
     /\ Named(registry0, req0.model_name) /= {}) =>
        LET N == Named(registry0, req0.model_name)
            S == SameBackend(req0, registry0)
        IN  /\ req.backend = registry0[FirstOf(N)].backend
            /\ req.model_id \notin {None, req0.model_id, req0.model_name}
                   => \E i \in S : registry0[i].model_id = req.model_id
            /\ req.temperature \notin {None, req0.temperature, "0.0"}
                   => \E i \in S : registry0[i].temperature = req.temperature
            /\ \A k \in DOMAIN req.opts.d :
                   \/ k \in DOMAIN req0.opts.d /\ req0.opts.d[k] = req.opts.d[k]
                   \/ \E i \in S : /\ k \in DOMAIN registry0[i].opts.d
                                    /\ registry0[i].opts.d[k] = req.opts.d[k]

\* A name-only spec resolved against an entry of one backend followed by an
\* entry of another backend that sets a model_id: the backend is the first
\* entry's and the model_id is not the second's.
C31_Witness ==
    /\ Resolved
    /\ req0.backend = None /\ Minimal(req0)
    /\ Len(registry0) = 2
    /\ registry0[1].model_name = req0.model_name
    /\ registry0[2].model_name = req0.model_name
    /\ registry0[1].backend = "anthropic" /\ registry0[1].model_id = None
    /\ registry0[2].backend = "mistral" /\ registry0[2].model_id = "rid"
    /\ req.backend = "anthropic"
    /\ req.model_id = req0.model_name

\* C32: after an init_model_registry call that raised, the model registry is
\* the one the call began with; no record of the listing stays registered.
C32_FailedLoadChangesNothing ==
    (outcome.op = "load" /\ outcome.exc /= None) => model_registry = registry0

\* The state of a spec: its fields and the items of its options.
Fields(s) == <<s.model_name, s.backend, s.model_id, s.temperature, s.opts.d>>

\* self after self.update(other) was applied once, and twice.
UpdatedOnce(self, other) == update(self, other)[1]
UpdatedTwice(self, other) ==
    LET once == update(self, other)
    IN  update(once[1], once[2])[1]

\* C33: merging is idempotent: for the caller's spec A and every entry B of
\* the registry, A.update(B) applied twice leaves A with the backend,
\* model_id, temperature and options that applying it once does; and a
\* second get_backend_for call with an already resolved spec against the
\* same registry changes none of the spec's fields.
C33_MergeIdempotent ==
    /\ outcome.op \in {"resolve", "resolve_again"} =>
           \A i \in DOMAIN registry0 :
               Fields(UpdatedTwice(req0, registry0[i])) = Fields(UpdatedOnce(req0, registry0[i]))
    /\ outcome.op = "resolve_again" =>
           (Fields(req) = Fields(req0) /\ model_registry = registry0)

\* A spec that got its backend, temperature and options from the registry
\* in a first resolution and went through a second one that constructed a
\* backend.
C33_Witness ==
    /\ outcome.op = "resolve_again"
    /\ outcome.exc = None
    /\ Len(registry0) = 2
    /\ req0.backend = "anthropic"
    /\ req0.temperature = "0.7"
    /\ DOMAIN req0.opts.d /= {}
    /\ \E i \in DOMAIN registry0 :
           /\ registry0[i].model_name = req0.model_name
           /\ registry0[i].temperature = "0.2"

====
